---- MODULE Spec2Model ----
(***************************************************************************)
(* State-machine model of the laserBeam repository:                        *)
(*   - calibrate.py      : run_calibration, the calibration session loop   *)
(*   - eye_laser_game.py : the game loop and Asteroid.update (dwell timer) *)
(*                                                                         *)
(* Coordinates are integer pixels, a point is a record [x, y].  Python's   *)
(* None is the record None, so that it can be compared with points,        *)
(* captured points and mappings; a missing index is NoIndex.               *)
(***************************************************************************)
EXTENDS Integers, Sequences, FiniteSets, TLC

None == [none |-> TRUE]
NoIndex == -1

Pt(x, y) == [x |-> x, y |-> y]
PtAdd(p, q) == Pt(p.x + q.x, p.y + q.y)

(***************************************************************************)
(* Bounds of the model (not program constants).                            *)
(***************************************************************************)
\* key presses the operator spends on manual editing within one session
\* (SHIFT counts as a key press of its own)
MaxEditKeys == 4
\* the game clock stops the run at this time (seconds)
MaxTime == 1
\* asteroids spawned within one run of the game, the first one included
MaxSpawns == 2

(***************************************************************************)
(* calibrate.py: constants and the screen                                  *)
(***************************************************************************)
SAMPLES_PER_POINT == 30
WIDTH == 1920
HEIGHT == 1080
NUM_POINTS == 5
warmup_samples == 30
STEP_SMALL == 5
STEP_LARGE == 20

Targets == 0 .. (NUM_POINTS - 1)

calibration_points ==
    [i \in Targets |->
        CASE i = 0 -> Pt(WIDTH \div 2, HEIGHT \div 2)
          [] i = 1 -> Pt(100, 100)
          [] i = 2 -> Pt(WIDTH - 100, 100)
          [] i = 3 -> Pt(100, HEIGHT - 100)
          [] i = 4 -> Pt(WIDTH - 100, HEIGHT - 100)]

\* int(SAMPLES_PER_POINT * 0.7): the product is 21.0 in binary floating
\* point for 30 samples, and int() truncates.
MinValidLow == (SAMPLES_PER_POINT * 2) \div 3
MinValid == (SAMPLES_PER_POINT * 7) \div 10

(***************************************************************************)
(* The scene camera.  undistort_point hands the raw pixel to OpenCV and    *)
(* reprojects through the camera matrix; the model keeps the first-order   *)
(* radial term about the principal point (CAM_CX, CAM_CY).                 *)
(***************************************************************************)
CAM_CX == 800
CAM_CY == 600
DIST_DEN == 16

undistort_point(x, y) ==
    Pt(x + ((x - CAM_CX) \div DIST_DEN), y + ((y - CAM_CY) \div DIST_DEN))

(***************************************************************************)
(* The gaze source.  receive_gaze_datum() returns None or a datum          *)
(* [x, y, worn].  While the operator looks at target idx the raw gaze is   *)
(* the target's scene position plus a small offset.                        *)
(***************************************************************************)
GazeOffsets == << Pt(-52, -59), Pt(-49, -50) >>

Datum(idx, o, worn) ==
    [x |-> calibration_points[idx].x + GazeOffsets[o].x,
     y |-> calibration_points[idx].y + GazeOffsets[o].y,
     worn |-> worn]

\* a burst of SAMPLES_PER_POINT readings of which the last nv are usable:
\* the others are missing or taken with the device not worn, and the gaze
\* jitters between the two offsets
Burst(idx, nv) ==
    [k \in 1 .. SAMPLES_PER_POINT |->
        IF k <= SAMPLES_PER_POINT - nv
        THEN IF k % 2 = 1 THEN None ELSE Datum(idx, 1, FALSE)
        ELSE Datum(idx, (k % 2) + 1, TRUE)]

\* the numbers of usable readings tried: none, around the threshold, all
ValidCounts == {0, 20, 21, 30}

Bursts(idx) == { Burst(idx, nv) : nv \in ValidCounts }

\* what a burst delivered: readings missing, taken with the device not worn,
\* and taken with the device worn
Readings(burst) ==
    [absent |-> Cardinality({k \in DOMAIN burst : burst[k] = None}),
     unworn |-> Cardinality({k \in DOMAIN burst :
                                burst[k] # None /\ ~burst[k].worn}),
     worn   |-> Cardinality({k \in DOMAIN burst :
                                burst[k] # None /\ burst[k].worn})]

\* "if gaze and gaze.worn" (line 203)
UsableMutant(gaze) == gaze # None
Usable(gaze) == gaze # None /\ gaze.worn

\* lines 200-206: the samples list of a burst
CollectSamples(burst) ==
    LET kept == SelectSeq(burst, Usable)
    IN  [k \in 1 .. Len(kept) |-> undistort_point(kept[k].x, kept[k].y)]

RECURSIVE SumX(_, _)
SumX(s, n) == IF n = 0 THEN 0 ELSE s[n].x + SumX(s, n - 1)
RECURSIVE SumY(_, _)
SumY(s, n) == IF n = 0 THEN 0 ELSE s[n].y + SumY(s, n - 1)

\* np.mean(np.array(samples), axis=0), on the pixel grid
Mean(samples) ==
    Pt(SumX(samples, Len(samples)) \div Len(samples),
       SumY(samples, Len(samples)) \div Len(samples))

(***************************************************************************)
(* The mapping.  cv2.findHomography(src, dst, method=0) is the library's   *)
(* least-squares fit: the model keeps the pairs it was fit to and the      *)
(* residual the fit leaves on them; cv2.perspectiveTransform of a fitted   *)
(* gaze point is its destination plus that residual.                       *)
(***************************************************************************)
FitResiduals == { Pt(3, -2) }

findHomography(src, dst, res) == [src |-> src, dst |-> dst, res |-> res]

perspectiveTransform(gaze_pt, H) ==
    LET k == CHOOSE j \in DOMAIN H.src : H.src[j] = gaze_pt
    IN  PtAdd(H.dst[k], H.res)

\* the arrow keys, and the step with and without KMOD_SHIFT (lines 269-279)
Arrows == {"up", "down", "left", "right"}
StepNoModifier(shift) == STEP_SMALL
Step(shift) == IF shift THEN STEP_LARGE ELSE STEP_SMALL

\* a nudge as the operator makes it: the arrow, and whether SHIFT is held
NudgeKinds == Arrows \X BOOLEAN
NoNudges == [k \in NudgeKinds |-> 0]

VARIABLES
    phase,              \* "init", "capture", "replay", "manual_edit"
    captured_points,    \* per target: None or [gaze, screen, adjusted]
    current_index,
    redo_index,         \* NoIndex or a target
    manual_edit_index,  \* NoIndex or a target
    homography,         \* None or a fitted mapping
    running,
    samples_collected,  \* warm-up samples seen so far
    collected,          \* len(samples) of the last burst (line 208), -1 before it
    pulled,             \* history: the readings of the last burst, by kind
    calib_file,         \* content of CALIB_FILE
    pc,                 \* "loop" inside the main loop, "done" after the save
    edit_entry,         \* history: the last manual edit since the last redo, as
                        \*   the point was before and after entering it
    nudges,             \* history: the nudges of that edit, per kind
    edit_keys           \* history: key presses spent on manual editing

cal_vars == << phase, captured_points, current_index, redo_index,
              manual_edit_index, homography, running, samples_collected,
              collected, calib_file, pc, pulled, edit_entry, nudges, edit_keys >>

\* eye_laser_game.py
VARIABLES
    pl_device,          \* TRUE when a device was discovered
    camera,             \* what load_scene_camera found: K, D, scene_resolution
    calibration,        \* the loaded CALIB_FILE
    asteroids,          \* the list of asteroids on screen
    score,
    game_running,       \* the loop flag "running"
    now,                \* time.time(), in seconds
    cursor_pos,
    game_pc,            \* "loop" inside the main loop, "ended" after it
    spawned,            \* history: asteroids created so far (their identities)
    results,            \* history: what update() returned in the last frame
    destroyed,          \* history: "destroyed" results per asteroid so far
    inside_since,       \* history: per asteroid, the time of the pass in which
                        \* the cursor came into its square and has stayed since
    dropped,            \* history: the asteroids the cursor went out of
                        \* in the last pass
    pointer,            \* history: pygame.mouse.get_pos() in the last pass
    sample,             \* history: what the device had to give in the last
                        \* pass (kind "none" without a device)
    quit_event          \* history: QUIT or ESC was among the events of the
                        \* last pass

game_vars == << pl_device, camera, calibration, asteroids, score, game_running,
               now, cursor_pos, game_pc, spawned, results, destroyed,
               inside_since, dropped, pointer, sample, quit_event >>

vars == << cal_vars, game_vars >>

hist == << pulled, edit_entry, nudges, edit_keys >>
edit_hist == << edit_entry, nudges, edit_keys >>

\* [p for p in captured_points if p is not None], in target order
RECURSIVE PopulatedFrom(_, _)
PopulatedFrom(cp, i) ==
    IF i >= NUM_POINTS THEN <<>>
    ELSE IF cp[i] # None THEN <<cp[i]>> \o PopulatedFrom(cp, i + 1)
    ELSE PopulatedFrom(cp, i + 1)

Populated(cp) == PopulatedFrom(cp, 0)

FitSrc(pts) == [k \in DOMAIN pts |-> pts[k].gaze]
FitDstScreenOnly(pts) == [k \in DOMAIN pts |-> pts[k].screen]
FitDst(pts) ==
    [k \in DOMAIN pts |->
        IF pts[k].adjusted # None THEN pts[k].adjusted ELSE pts[k].screen]

\* recompute_homography(): the new value of homography for the points cp
recompute_homography(cp, res) ==
    LET pts == Populated(cp)
    IN  IF Len(pts) >= 4
        THEN findHomography(FitSrc(pts), FitDst(pts), res)
        ELSE None

CalInit ==
    /\ phase = "init"
    /\ captured_points = [i \in Targets |-> None]
    /\ current_index = 0
    /\ redo_index = NoIndex
    /\ manual_edit_index = NoIndex
    /\ homography = None
    /\ running = TRUE
    /\ samples_collected = 0
    /\ collected = -1
    /\ calib_file = <<>>
    /\ pc = "loop"
    /\ pulled = None
    /\ edit_entry = None
    /\ nudges = NoNudges
    /\ edit_keys = 0

(***************************************************************************)
(* One pass of the loop body while phase is "init" (lines 132-145).  The    *)
(* stream is live: a pass may miss a datum, and warmup_samples data arrive *)
(* before warmup_duration is over, so the time test stays false.           *)
(***************************************************************************)
Warmup ==
    /\ pc = "loop" /\ running /\ phase = "init"
    /\ \E gaze \in BOOLEAN :
         LET n == IF gaze THEN samples_collected + 1 ELSE samples_collected
             timeout == FALSE
         IN  /\ samples_collected' = n
             /\ IF timeout \/ n >= warmup_samples
                THEN phase' = "capture" /\ current_index' = 0
                ELSE UNCHANGED << phase, current_index >>
    /\ UNCHANGED << captured_points, redo_index, manual_edit_index, homography,
                    running, collected, calib_file, pc, hist >>
    /\ UNCHANGED game_vars

QuitAsEscape ==
    /\ pc = "loop"
    /\ IF phase = "manual_edit"
       THEN /\ manual_edit_index' = NoIndex
            /\ phase' = "replay"
            /\ UNCHANGED running
       ELSE /\ running' = FALSE
            /\ UNCHANGED << manual_edit_index, phase >>
    /\ UNCHANGED << captured_points, current_index, redo_index, homography,
                    samples_collected, collected, calib_file, pc, hist >>
    /\ UNCHANGED game_vars

\* pygame.QUIT (lines 187-188)
Quit ==
    /\ pc = "loop"
    /\ running' = FALSE
    /\ UNCHANGED << phase, captured_points, current_index, redo_index,
                    manual_edit_index, homography, samples_collected, collected,
                    calib_file, pc, hist >>
    /\ UNCHANGED game_vars

KeyEscapeToCapture ==
    /\ pc = "loop"
    /\ IF phase = "manual_edit"
       THEN /\ manual_edit_index' = NoIndex
            /\ phase' = "capture"
            /\ UNCHANGED running
       ELSE /\ running' = FALSE
            /\ UNCHANGED << manual_edit_index, phase >>
    /\ UNCHANGED << captured_points, current_index, redo_index, homography,
                    samples_collected, collected, calib_file, pc, hist >>
    /\ UNCHANGED game_vars

\* K_ESCAPE (lines 191-196)
KeyEscape ==
    /\ pc = "loop"
    /\ IF phase = "manual_edit"
       THEN /\ manual_edit_index' = NoIndex
            /\ phase' = "replay"
            /\ UNCHANGED running
       ELSE /\ running' = FALSE
            /\ UNCHANGED << manual_edit_index, phase >>
    /\ UNCHANGED << captured_points, current_index, redo_index, homography,
                    samples_collected, collected, calib_file, pc, hist >>
    /\ UNCHANGED game_vars

(***************************************************************************)
(* K_SPACE (lines 198-235): the burst, the threshold, the stored point and *)
(* the advance.  In the other phases the key falls through the elif chain  *)
(* (in manual_edit line 290 stores the unchanged value again).             *)
(***************************************************************************)
CaptureFitsEveryTime(idx, burst, res) ==
    LET samples == CollectSamples(burst)
    IN  IF Len(samples) >= MinValid
        THEN LET stored == [captured_points EXCEPT ![idx] =
                               [gaze |-> Mean(samples),
                                screen |-> calibration_points[idx],
                                adjusted |-> None]]
             IN  /\ captured_points' = stored
                 /\ IF redo_index = NoIndex
                    THEN /\ current_index' = current_index + 1
                         /\ IF current_index + 1 >= NUM_POINTS
                            THEN /\ homography' = recompute_homography(stored, res)
                                 /\ phase' = "replay"
                            ELSE /\ homography' = recompute_homography(stored, res)
                                 /\ UNCHANGED phase
                         /\ UNCHANGED redo_index
                    ELSE /\ redo_index' = NoIndex
                         /\ homography' = recompute_homography(stored, res)
                         /\ phase' = "replay"
                         /\ UNCHANGED current_index
        ELSE UNCHANGED << captured_points, current_index, redo_index,
                          homography, phase >>

CaptureRedoKeepsFit(idx, burst, res) ==
    LET samples == CollectSamples(burst)
    IN  IF Len(samples) >= MinValid
        THEN LET stored == [captured_points EXCEPT ![idx] =
                               [gaze |-> Mean(samples),
                                screen |-> calibration_points[idx],
                                adjusted |-> None]]
             IN  /\ captured_points' = stored
                 /\ IF redo_index = NoIndex
                    THEN /\ current_index' = current_index + 1
                         /\ IF current_index + 1 >= NUM_POINTS
                            THEN /\ homography' = recompute_homography(stored, res)
                                 /\ phase' = "replay"
                            ELSE UNCHANGED << homography, phase >>
                         /\ UNCHANGED redo_index
                    ELSE /\ redo_index' = NoIndex
                         /\ UNCHANGED homography
                         /\ phase' = "replay"
                         /\ UNCHANGED current_index
        ELSE UNCHANGED << captured_points, current_index, redo_index,
                          homography, phase >>

Capture(idx, burst, res) ==
    LET samples == CollectSamples(burst)
    IN  IF Len(samples) >= MinValid
        THEN LET stored == [captured_points EXCEPT ![idx] =
                               [gaze |-> Mean(samples),
                                screen |-> calibration_points[idx],
                                adjusted |-> None]]
             IN  /\ captured_points' = stored
                 /\ IF redo_index = NoIndex
                    THEN /\ current_index' = current_index + 1
                         /\ IF current_index + 1 >= NUM_POINTS
                            THEN /\ homography' = recompute_homography(stored, res)
                                 /\ phase' = "replay"
                            ELSE UNCHANGED << homography, phase >>
                         /\ UNCHANGED redo_index
                    ELSE /\ redo_index' = NoIndex
                         /\ homography' = recompute_homography(stored, res)
                         /\ phase' = "replay"
                         /\ UNCHANGED current_index
        ELSE UNCHANGED << captured_points, current_index, redo_index,
                          homography, phase >>

KeySpace ==
    /\ pc = "loop"
    /\ IF phase = "capture"
       THEN LET idx == IF redo_index # NoIndex THEN redo_index ELSE current_index
            IN  \E burst \in Bursts(idx), res \in FitResiduals :
                    /\ collected' = Len(CollectSamples(burst))
                    /\ pulled' = Readings(burst)
                    /\ Capture(idx, burst, res)
       ELSE UNCHANGED << captured_points, current_index, redo_index,
                         homography, phase, collected, pulled >>
    /\ UNCHANGED << manual_edit_index, running, samples_collected, calib_file,
                    pc, edit_hist >>
    /\ UNCHANGED game_vars

(***************************************************************************)
(* K_1 .. K_5 in replay (lines 237-265): with SHIFT enter the manual edit  *)
(* of a populated point, without it redo the point.                        *)
(***************************************************************************)
EnterManualEditKeepsAdjusted(idx) ==
    LET mapped == IF homography # None
                  THEN perspectiveTransform(captured_points[idx].gaze, homography)
                  ELSE captured_points[idx].screen
    IN  /\ manual_edit_index' = idx
        /\ captured_points' = captured_points
        /\ phase' = "manual_edit"
        /\ edit_entry' = [idx |-> idx,
                          committed |-> captured_points[idx].adjusted,
                          mapped |-> mapped]
        /\ nudges' = NoNudges
        /\ edit_keys' = edit_keys + 2
        /\ UNCHANGED << redo_index, pulled >>

EnterManualEdit(idx) ==
    LET mapped == IF homography # None
                  THEN perspectiveTransform(captured_points[idx].gaze, homography)
                  ELSE captured_points[idx].screen
    IN  /\ manual_edit_index' = idx
        /\ captured_points' = [captured_points EXCEPT ![idx].adjusted = mapped]
        /\ phase' = "manual_edit"
        /\ edit_entry' = [idx |-> idx,
                          committed |-> captured_points[idx].adjusted,
                          mapped |-> mapped]
        /\ nudges' = NoNudges
        /\ edit_keys' = edit_keys + 2
        /\ UNCHANGED << redo_index, pulled >>

RedoDropsAdjustments(idx) ==
    /\ redo_index' = idx
    /\ captured_points' =
          [i \in Targets |->
              IF i = idx \/ captured_points[i] = None THEN None
              ELSE [captured_points[i] EXCEPT !.adjusted = None]]
    /\ phase' = "capture"
    /\ edit_entry' = None
    /\ nudges' = NoNudges
    /\ UNCHANGED << manual_edit_index, edit_keys, pulled >>

RedoStaysInReplay(idx) ==
    /\ redo_index' = idx
    /\ captured_points' = [captured_points EXCEPT ![idx] = None]
    /\ phase' = "replay"
    /\ edit_entry' = None
    /\ nudges' = NoNudges
    /\ UNCHANGED << manual_edit_index, edit_keys, pulled >>

Redo(idx) ==
    /\ redo_index' = idx
    /\ captured_points' = [captured_points EXCEPT ![idx] = None]
    /\ phase' = "capture"
    /\ edit_entry' = None
    /\ nudges' = NoNudges
    /\ UNCHANGED << manual_edit_index, edit_keys, pulled >>

KeyDigit ==
    /\ pc = "loop"
    /\ IF phase = "replay"
       THEN \E idx \in 0 .. 4, shift \in BOOLEAN :
              IF idx < NUM_POINTS /\ captured_points[idx] # None
              THEN IF shift
                   THEN edit_keys + 2 <= MaxEditKeys /\ EnterManualEdit(idx)
                   ELSE Redo(idx)
              ELSE UNCHANGED << redo_index, captured_points, phase,
                                manual_edit_index, hist >>
       ELSE UNCHANGED << redo_index, captured_points, phase,
                         manual_edit_index, hist >>
    /\ UNCHANGED << current_index, homography, running, samples_collected,
                    collected, calib_file, pc >>
    /\ UNCHANGED game_vars

(***************************************************************************)
(* Arrow keys in manual_edit (lines 267-279, 290).                         *)
(***************************************************************************)
Nudged(p, arrow, step) ==
    CASE arrow = "up"    -> Pt(p.x, p.y - step)
      [] arrow = "down"  -> Pt(p.x, p.y + step)
      [] arrow = "left"  -> Pt(p.x - step, p.y)
      [] arrow = "right" -> Pt(p.x + step, p.y)

KeyArrow ==
    /\ pc = "loop"
    /\ IF phase = "manual_edit" /\ manual_edit_index # NoIndex
       THEN \E arrow \in Arrows, shift \in BOOLEAN :
              LET cost == IF shift THEN 2 ELSE 1
              IN  /\ edit_keys + cost <= MaxEditKeys
                  /\ captured_points' =
                        [captured_points EXCEPT ![manual_edit_index].adjusted =
                            Nudged(@, arrow, Step(shift))]
                  /\ nudges' = [nudges EXCEPT ![<<arrow, shift>>] = @ + 1]
                  /\ edit_keys' = edit_keys + cost
       ELSE UNCHANGED << captured_points, nudges, edit_keys >>
    /\ UNCHANGED << pulled, phase, current_index, redo_index, manual_edit_index,
                    homography, running, samples_collected, collected, calib_file,
                    pc, edit_entry >>
    /\ UNCHANGED game_vars

\* K_RETURN in manual_edit (lines 280-288): confirm
KeyReturn ==
    /\ pc = "loop"
    /\ IF phase = "manual_edit" /\ manual_edit_index # NoIndex
       THEN /\ \E res \in FitResiduals :
                 homography' = recompute_homography(captured_points, res)
            /\ manual_edit_index' = NoIndex
            /\ phase' = "replay"
       ELSE UNCHANGED << homography, manual_edit_index, phase >>
    /\ UNCHANGED << captured_points, current_index, redo_index, running,
                    samples_collected, collected, calib_file, pc, hist >>
    /\ UNCHANGED game_vars

SaveOnlyCompleteSets ==
    /\ pc = "loop" /\ ~running
    /\ calib_file' = IF Len(Populated(captured_points)) = NUM_POINTS
                     THEN Populated(captured_points)
                     ELSE calib_file
    /\ pc' = "done"
    /\ UNCHANGED << phase, captured_points, current_index, redo_index,
                    manual_edit_index, homography, running, samples_collected,
                    collected, hist >>
    /\ UNCHANGED game_vars

\* after the loop (lines 297-299)
SaveCalibration ==
    /\ pc = "loop" /\ ~running
    /\ calib_file' = Populated(captured_points)
    /\ pc' = "done"
    /\ UNCHANGED << phase, captured_points, current_index, redo_index,
                    manual_edit_index, homography, running, samples_collected,
                    collected, hist >>
    /\ UNCHANGED game_vars

(***************************************************************************)
(* eye_laser_game.py: settings                                             *)
(***************************************************************************)
ASTEROID_SIZE == 64
FIXATION_TIME == 1
MIN_DISTANCE == ASTEROID_SIZE * 2
MAX_ON_SCREEN == 8

Time(t) == [t |-> t]

(***************************************************************************)
(* What the setup may find (lines 128-153).                                *)
(***************************************************************************)
\* load_scene_camera: no file, K and D only, or K, D and the resolution
Cameras == {"missing", "matrix", "matrix_resolution"}
SceneResolution(cam) == IF cam = "matrix_resolution" THEN Pt(1600, 1200) ELSE None

\* json.load(CALIB_FILE): nothing loaded, the list calibrate.py writes, or a
\* dict of affine parameters
NoCalibration == [format |-> "none"]
ListCalibration(items) == [format |-> "list", items |-> items]
AffineCalibration(px, py) == [format |-> "affine", params_x |-> px, params_y |-> py]

SessionArtifact ==
    << [gaze |-> Pt(915, 477), screen |-> calibration_points[0], adjusted |-> None],
       [gaze |-> Pt(2, 10), screen |-> calibration_points[1],
        adjusted |-> Pt(103, 98)] >>

\* "if pl_device and calibration": None, [] and {} are false
\* what the setup found: the device, the camera file and CALIB_FILE
Setups ==
    { [device |-> FALSE, camera |-> "missing", calibration |-> NoCalibration],
      [device |-> TRUE, camera |-> "missing", calibration |-> NoCalibration],
      [device |-> TRUE, camera |-> "matrix",
       calibration |-> ListCalibration(SessionArtifact)] }
    \cup { [device |-> TRUE, camera |-> cam, calibration |-> AffineCalibration(<<1, 0, 50>>, <<0, 1, 50>>)] :
             cam \in {"missing", "matrix_resolution"} }

Truthy(calib) ==
    \/ calib.format = "list" /\ calib.items # <<>>
    \/ calib.format = "affine"

(***************************************************************************)
(* The gaze pipeline of one frame (lines 112-125, 223-258).                *)
(***************************************************************************)
\* how a call ends: with an exception of a class, or with a value
Raised(e) == [raised |-> TRUE, exc |-> e]
Returned(v) == [raised |-> FALSE, value |-> v]

\* undistort_point_opencv
undistort_point_opencv(x, y, cam) ==
    IF cam = "missing" THEN Pt(x, y) ELSE undistort_point(x, y)

\* map_affine: indexing the loaded JSON with "params_x" raises on a list
map_affine(gx, gy, calib) ==
    IF calib.format # "affine" THEN Raised("TypeError")
    ELSE LET px == calib.params_x
             py == calib.params_y
         IN  Returned(Pt(px[1] * gx + px[2] * gy + px[3],
                         py[1] * gx + py[2] * gy + py[3]))

Max(a, b) == IF a >= b THEN a ELSE b
Min(a, b) == IF a <= b THEN a ELSE b

\* lines 236-237 and 250-251
ClampNoLowerBound(p) == Pt(Min(WIDTH - 1, p.x), Min(HEIGHT - 1, p.y))
Clamp(p) == Pt(Max(0, Min(WIDTH - 1, p.x)), Max(0, Min(HEIGHT - 1, p.y)))

\* what receive_gaze_datum() does when called in a frame: raise, return
\* None, or return a datum with x and y or with norm_pos only (in
\* thousandths); a datum with neither is not tried
GazeData ==
    { [kind |-> "raise"], [kind |-> "none"],
      [kind |-> "xy", x |-> 145, y |-> 150, worn |-> TRUE],
      [kind |-> "xy", x |-> 145, y |-> 150, worn |-> FALSE],
      [kind |-> "xy", x |-> 4000, y |-> -900, worn |-> TRUE],
      [kind |-> "norm", x |-> 90, y |-> 125, worn |-> TRUE] }

\* undistort, map, clamp (lines 232-238 and 248-252)
MapAndClamp(gx_raw, gy_raw) ==
    LET und == undistort_point_opencv(gx_raw, gy_raw, camera)
        m == map_affine(und.x, und.y, calibration)
    IN  IF m.raised THEN m ELSE Returned(Clamp(m.value))

\* the body of the try statement (lines 226-254): the cursor it leaves
GazeBody(mouse, datum) ==
    CASE datum.kind = "raise" -> Raised("OSError")
      [] datum.kind = "none" -> Returned(mouse)
      [] datum.kind = "xy" -> MapAndClamp(datum.x, datum.y)
      [] datum.kind = "norm" ->
           LET res == SceneResolution(camera)
               w == IF res # None THEN res.x ELSE WIDTH
               h == IF res # None THEN res.y ELSE HEIGHT
           IN  MapAndClamp((datum.x * w) \div 1000, (datum.y * h) \div 1000)
      [] OTHER -> Returned(mouse)

\* "except Exception" (line 255): the classes the handler catches
ExceptOSError(e) == e = "OSError"
ExceptException(e) == e \in {"OSError", "TypeError"}

\* the cursor of the frame (lines 223-258): the pointer, or the mapped
\* gaze; an exception the handler does not catch leaves the loop
ResolveCursor(mouse, datum) ==
    IF pl_device /\ Truthy(calibration)
    THEN LET o == GazeBody(mouse, datum)
         IN  IF o.raised /\ ExceptException(o.exc) THEN Returned(mouse) ELSE o
    ELSE Returned(mouse)

(***************************************************************************)
(* Asteroid (lines 156-198)                                                *)
(***************************************************************************)
\* where random.randint may put an asteroid, and the pointer positions tried
SpawnSpots == { Pt(200, 200), Pt(300, 200), Pt(200, 400) }
Types == {"good", "bad"}
MousePositions == { Pt(200, 200), Pt(232, 200), Pt(200, 400) }

\* __init__ accepts a position at least MIN_DISTANCE from every other one
ValidSpot(p, existing) ==
    \A k \in DOMAIN existing :
        LET dx == p.x - existing[k].x
            dy == p.y - existing[k].y
        IN  ~(dx * dx + dy * dy < MIN_DISTANCE * MIN_DISTANCE)

Asteroid(id, p, type) ==
    [id |-> id, x |-> p.x, y |-> p.y, fixating |-> FALSE, start_fix |-> None,
     type |-> type]

\* self.rect.collidepoint(cursor_pos): the right and bottom edges are outside
Collides(a, p) ==
    /\ a.x - ASTEROID_SIZE \div 2 <= p.x /\ p.x < a.x - ASTEROID_SIZE \div 2 + ASTEROID_SIZE
    /\ a.y - ASTEROID_SIZE \div 2 <= p.y /\ p.y < a.y - ASTEROID_SIZE \div 2 + ASTEROID_SIZE

\* the dwell test of update (line 193)
DwellOverStrict(start, t) == t - start.t > FIXATION_TIME
DwellOver(start, t) == t - start.t >= FIXATION_TIME

\* update with the dwell kept while the cursor is away
updateKeepsDwell(a, cursor, t) ==
    IF Collides(a, cursor)
    THEN IF ~a.fixating
         THEN [a |-> [a EXCEPT !.fixating = TRUE, !.start_fix = Time(t)],
               res |-> "fixation_start"]
         ELSE IF DwellOver(a.start_fix, t)
              THEN [a |-> a, res |-> "destroyed"]
              ELSE [a |-> a, res |-> "none"]
    ELSE [a |-> a, res |-> "none"]

\* Asteroid.update: the asteroid after the call and the value returned
update(a, cursor, t) ==
    IF Collides(a, cursor)
    THEN IF ~a.fixating
         THEN [a |-> [a EXCEPT !.fixating = TRUE, !.start_fix = Time(t)],
               res |-> "fixation_start"]
         ELSE IF DwellOver(a.start_fix, t)
              THEN [a |-> a, res |-> "destroyed"]
              ELSE [a |-> a, res |-> "none"]
    ELSE [a |-> [a EXCEPT !.fixating = FALSE, !.start_fix = None], res |-> "none"]

\* "for a in asteroids[:]" (lines 265-282): the list, the score and the loop
\* flag after the pass over list[i..], with the results of the calls
RECURSIVE UpdatePass(_, _, _, _, _, _)
UpdatePass(list, i, cursor, t, st, out) ==
    IF i > Len(list) THEN [st EXCEPT !.results = out]
    ELSE LET u == update(list[i], cursor, t)
             r == << list[i].id, u.res >>
         IN  IF u.res = "destroyed"
             THEN LET sc == IF list[i].type = "good" THEN st.score + 1
                            ELSE st.score \div 2
                      over == list[i].type = "bad" /\ sc <= 0
                  IN  UpdatePass(list, i + 1, cursor, t,
                                 [st EXCEPT !.score = sc,
                                            !.running = IF over THEN FALSE ELSE @],
                                 Append(out, r))
             ELSE UpdatePass(list, i + 1, cursor, t,
                             [st EXCEPT !.kept = Append(@, u.a)],
                             Append(out, r))

(***************************************************************************)
(* The game: setup and main loop                                           *)
(***************************************************************************)
\* the game's variables while the game is not run
GameOff ==
    /\ pl_device = FALSE
    /\ camera = "missing"
    /\ calibration = NoCalibration
    /\ asteroids = <<>>
    /\ score = 0
    /\ game_running = FALSE
    /\ now = 0
    /\ cursor_pos = Pt(0, 0)
    /\ game_pc = "off"
    /\ spawned = 0
    /\ results = <<>>
    /\ destroyed = [i \in 1 .. MaxSpawns |-> 0]
    /\ inside_since = [i \in 1 .. MaxSpawns |-> None]
    /\ dropped = {}
    /\ pointer = Pt(0, 0)
    /\ sample = [kind |-> "none"]
    /\ quit_event = FALSE

\* lines 128-153 and 201-208
GameSetup ==
    /\ \E s \in Setups :
          pl_device = s.device /\ camera = s.camera /\ calibration = s.calibration
    /\ \E p \in SpawnSpots, type \in Types : asteroids = << Asteroid(1, p, type) >>
    /\ score = 0
    /\ game_running = TRUE
    /\ now = 0
    /\ cursor_pos = Pt(0, 0)
    /\ game_pc = "loop"
    /\ spawned = 1
    /\ results = <<>>
    /\ destroyed = [i \in 1 .. MaxSpawns |-> 0]
    /\ inside_since = [i \in 1 .. MaxSpawns |-> None]
    /\ dropped = {}
    /\ pointer = Pt(0, 0)
    /\ sample = [kind |-> "none"]
    /\ quit_event = FALSE

\* one pass of the main loop (lines 211-322); GAME_DURATION is None.  The
\* clock counts whole seconds, and the update calls of one pass, a sixtieth
\* of a second apart at most, read the same second.
FrameEnd(t, cursor, list, after) ==
        /\ now' = t
        /\ cursor_pos' = cursor
        /\ asteroids' = after.kept
        /\ score' = after.score
        /\ game_running' = after.running
        /\ results' = after.results
        /\ spawned' = spawned + Len(list) - Len(asteroids)
        /\ destroyed' =
              [i \in DOMAIN destroyed |->
                  destroyed[i] + Cardinality({k \in DOMAIN after.results :
                                                 after.results[k] = << i, "destroyed" >>})]
        /\ inside_since' =
              [i \in DOMAIN inside_since |->
                  IF \E k \in DOMAIN after.kept :
                        after.kept[k].id = i /\ Collides(after.kept[k], cursor)
                  THEN IF inside_since[i] = None THEN Time(t) ELSE inside_since[i]
                  ELSE None]
        /\ dropped' =
                         {i \in DOMAIN inside_since :
                               /\ inside_since[i] # None
                               /\ \E k \in DOMAIN list :
                                     list[k].id = i /\ ~Collides(list[k], cursor)}
        /\ UNCHANGED << pl_device, camera, calibration, game_pc >>

\* the spawn statement with the screen allowed one asteroid more
MaySpawnAtCap(list) == Len(list) <= MAX_ON_SCREEN

\* "len(asteroids) < MAX_ON_SCREEN" (line 261)
MaySpawn(list) == Len(list) < MAX_ON_SCREEN

\* a spawn needs an identity that is left: the histories are kept for
\* MaxSpawns asteroids of the run
Frame(quit, mouse, datum, spawn, dt) ==
    LET t == now + dt
        list == IF spawn = None THEN asteroids
                ELSE Append(asteroids, Asteroid(spawned + 1, spawn.p, spawn.type))
    IN  /\ t <= MaxTime
        /\ spawn # None =>
              /\ MaySpawn(asteroids)
              /\ spawned + 1 \in DOMAIN destroyed
              /\ ValidSpot(spawn.p, asteroids)
        /\ pointer' = mouse
        /\ sample' = datum
        /\ quit_event' = quit
        /\ \E o \in {ResolveCursor(mouse, datum)} :
              IF o.raised
              THEN /\ game_pc' = "crashed"
                   /\ UNCHANGED << pl_device, camera, calibration, asteroids,
                                   score, game_running, now, cursor_pos, spawned,
                                   results, destroyed, inside_since, dropped >>
              ELSE \E after \in {UpdatePass(list, 1, o.value, t,
                                             [kept |-> <<>>, score |-> score,
                                              running |-> ~quit, results |-> <<>>],
                                             <<>>)} :
                      FrameEnd(t, o.value, list, after)

Spawns == {None} \cup { [p |-> p, type |-> type] : p \in SpawnSpots, type \in Types }

GameFrame ==
    /\ game_pc = "loop" /\ game_running
    /\ \E quit \in BOOLEAN, mouse \in MousePositions, spawn \in Spawns, dt \in {0, 1} :
         IF pl_device
         THEN \E datum \in GazeData : Frame(quit, mouse, datum, spawn, dt)
         ELSE Frame(quit, mouse, [kind |-> "none"], spawn, dt)
    /\ UNCHANGED cal_vars

\* after the loop (lines 324-333)
GameCleanup ==
    /\ game_pc = "loop" /\ ~game_running
    /\ game_pc' = "ended"
    /\ UNCHANGED << pl_device, camera, calibration, asteroids, score,
                    game_running, now, cursor_pos, spawned, results, destroyed,
                    inside_since, dropped, pointer, sample, quit_event >>
    /\ UNCHANGED cal_vars
(***************************************************************************)
(* The calibration session (calibrate.py run on its own) and the game      *)
(* (eye_laser_game.py) are two processes: each specification runs one of   *)
(* them and leaves the variables of the other alone.                       *)
(***************************************************************************)
Init == CalInit /\ GameOff
Next ==
    \/ Warmup
    \/ Quit
    \/ KeyEscape
    \/ KeySpace
    \/ KeyDigit
    \/ KeyArrow
    \/ KeyReturn
    \/ SaveCalibration

Spec == Init /\ [][Next]_vars

GameInit == CalInit /\ GameSetup
GameNext == GameFrame \/ GameCleanup
GameSpec == GameInit /\ [][GameNext]_vars

(***************************************************************************)
(* The game with the screen nearly full.  From the setup the loop gets to  *)
(* MAX_ON_SCREEN asteroids only after seven spawns; CrowdedSetup is the    *)
(* state it is in after n - 1 passes that each spawned one asteroid, at    *)
(* the same second, without a device, with the pointer at (232, 200), off  *)
(* every asteroid.  The loop then goes on as in GameSpec, with MaxSpawns   *)
(* further asteroids.                                                      *)
(***************************************************************************)
\* where random.randint has put the asteroids of the crowd, in spawn order;
\* the sixth is nearer than MIN_DISTANCE to the spot (300, 200)
CrowdSpots ==
    << Pt(600, 200), Pt(800, 200), Pt(1000, 200), Pt(1200, 200),
       Pt(600, 400), Pt(400, 200), Pt(1000, 400), Pt(1200, 400) >>

CrowdedSetup ==
    \E n \in {MAX_ON_SCREEN - 1, MAX_ON_SCREEN} :
        /\ pl_device = FALSE /\ camera = "missing" /\ calibration = NoCalibration
        /\ asteroids = [i \in 1 .. n |->
                           Asteroid(i, CrowdSpots[i],
                                    IF i % 2 = 1 THEN "good" ELSE "bad")]
        /\ score = 0
        /\ game_running = TRUE
        /\ now = 0
        /\ cursor_pos = Pt(232, 200)
        /\ game_pc = "loop"
        /\ spawned = n
        /\ results = [i \in 1 .. n |-> << i, "none" >>]
        /\ destroyed = [i \in 1 .. n + MaxSpawns |-> 0]
        /\ inside_since = [i \in 1 .. n + MaxSpawns |-> None]
        /\ dropped = {}
        /\ pointer = Pt(232, 200)
        /\ sample = [kind |-> "none"]
        /\ quit_event = FALSE

CrowdedInit == CalInit /\ CrowdedSetup
CrowdedSpec == CrowdedInit /\ [][GameNext]_vars

(***************************************************************************)
(* Properties of the calibration session                                   *)
(***************************************************************************)
\* the target a capture attempt is for (line 199)
ActiveIndex == IF redo_index # NoIndex THEN redo_index ELSE current_index

\* a step that handles K_SPACE in the capture phase with a new outcome
CaptureStep ==
    /\ phase = "capture" /\ pc = "loop" /\ pc' = "loop" /\ running' = running
    /\ << captured_points, collected, pulled, phase >>' #
       << captured_points, collected, pulled, phase >>

\* fewer than 0.7 x count of the readings pulled are valid
TooFewValid(readings) == readings.worn * 10 < 7 * SAMPLES_PER_POINT

\* C1: a capture attempt that fails for lack of valid samples leaves the
\* session as it was: same phase and target, no point stored or modified,
\* current_index, redo_index and the mapping unchanged.
C1_FailedCaptureKeepsState ==
    [][ (CaptureStep /\ TooFewValid(pulled'))
        => UNCHANGED << phase, captured_points, current_index, redo_index,
                        manual_edit_index, homography, running, calib_file >> ]_vars

\* a failed attempt during the redo of target 1, the session still waiting
C1_Witness ==
    /\ phase = "capture" /\ redo_index = 1 /\ captured_points[1] = None
    /\ pulled # None /\ pulled.worn = 20 /\ homography # None

\* C2: a burst of 30 readings stores a point if and only if at least
\* 0.7 x 30 = 21 of them are valid (present and worn); with fewer, zero
\* included, nothing is stored.
C2_CaptureThreshold ==
    [][ CaptureStep
        => /\ pulled'.absent + pulled'.unworn + pulled'.worn = SAMPLES_PER_POINT
           /\ (captured_points'[ActiveIndex] # None) <=> ~TooFewValid(pulled')
           /\ captured_points[ActiveIndex] = None ]_vars

\* the last target was captured from exactly 21 valid readings
C2_Witness ==
    /\ phase = "replay" /\ current_index = NUM_POINTS /\ redo_index = NoIndex
    /\ pulled # None /\ pulled.worn = 21 /\ pulled.unworn > 0
    /\ captured_points[NUM_POINTS - 1] # None

\* the mapping is the fit over exactly the populated points
FitOverPopulated ==
    /\ homography # None
    /\ homography.src = FitSrc(Populated(captured_points))
    /\ homography.dst = FitDst(Populated(captured_points))

\* C3: during the capture phase of a redo the mapping is the fit over the
\* remaining populated points, the cleared target excluded.
C3_RedoMappingOverRemaining ==
    (phase = "capture" /\ redo_index # NoIndex) => FitOverPopulated

\* C4: the mapping is null while fewer than 4 points are populated, and with
\* 4 or more populated it is the fit over the populated points.
C4_MappingInStep ==
    IF Len(Populated(captured_points)) < 4
    THEN homography = None
    ELSE FitOverPopulated

\* C5: cancelling a manual edit leaves the point's adjusted value as it was
\* committed before the edit was entered.
C5_CancelDiscardsEdits ==
    [][ (phase = "manual_edit" /\ KeyEscape)
        => captured_points'[manual_edit_index].adjusted = edit_entry.committed ]_vars

\* C6 as stated: ESC ends the session loop from every phase.
C6_EscapeEndsEveryPhase ==
    pc = "loop" => ENABLED (KeyEscape /\ ~running')

\* C6 as amended: the quit command ends the loop from every phase; ESC ends
\* it from every phase but the manual edit, which it cancels, the session
\* going on in replay; and once the loop is ended the save is what follows.
C6_QuitEndsEveryPhase ==
    pc = "loop" =>
        /\ ENABLED (Quit /\ ~running')
        /\ ~ENABLED (Quit /\ running')
        /\ phase # "manual_edit" => /\ ENABLED (KeyEscape /\ ~running')
                                    /\ ~ENABLED (KeyEscape /\ running')
        /\ phase = "manual_edit" =>
              /\ ENABLED (KeyEscape /\ phase' = "replay" /\ running' = running)
              /\ ~ENABLED (KeyEscape /\ phase' # "replay")
        /\ ~running => /\ ENABLED (SaveCalibration /\ pc' = "done")
                       /\ ~ENABLED Warmup

\* the session was quit in the middle of a manual edit and saved
C6_Witness ==
    pc = "done" /\ phase = "manual_edit" /\ ~running

\* the populated targets, in target order
PopulatedTargets == {i \in Targets : captured_points[i] # None}
Rank(i) == Cardinality({j \in PopulatedTargets : j < i}) + 1

\* C7: the saved artifact is the list of the populated points, one entry per
\* populated target in target order, whatever the phase at the end; a
\* partial set, the empty one included, is saved as it is.
C7_ArtifactIsPopulatedPoints ==
    pc = "done" =>
        /\ Len(calib_file) = Cardinality(PopulatedTargets)
        /\ \A i \in PopulatedTargets :
              /\ calib_file[Rank(i)] = captured_points[i]
              /\ calib_file[Rank(i)].screen = calibration_points[i]
              /\ DOMAIN calib_file[Rank(i)] = {"gaze", "screen", "adjusted"}

\* saved during a redo: four entries, the cleared target left out
C7_Witness ==
    /\ pc = "done" /\ phase = "capture" /\ redo_index = 2
    /\ Len(calib_file) = NUM_POINTS - 1
    /\ calib_file[3].screen = calibration_points[3]

\* C8: the redo command clears the point of its target only and moves to
\* the capture of that target.
C8_RedoClearsOnlyItsPoint ==
    [][ (phase = "replay" /\ phase' = "capture")
        => /\ redo_index' \in Targets
           /\ captured_points[redo_index'] # None
           /\ captured_points'[redo_index'] = None
           /\ \A j \in Targets \ {redo_index'} :
                 captured_points'[j] = captured_points[j]
           /\ ActiveIndex' = redo_index'
           /\ current_index' = current_index ]_vars

\* target 2 is being redone while target 0 keeps its adjusted value
C8_Witness ==
    /\ phase = "capture" /\ redo_index = 2 /\ captured_points[2] = None
    /\ captured_points[0] # None /\ captured_points[0].adjusted # None

\* the displacement the nudges of the current edit add up to: 5 a nudge,
\* 20 with the modifier held
NudgeSum(arrow) == 5 * nudges[<<arrow, FALSE>>] + 20 * nudges[<<arrow, TRUE>>]
NetNudge == Pt(NudgeSum("right") - NudgeSum("left"), NudgeSum("down") - NudgeSum("up"))

EditOffsetExact ==
    captured_points[manual_edit_index].adjusted =
        PtAdd(perspectiveTransform(captured_points[manual_edit_index].gaze,
                                   homography), NetNudge)

LastTarget == NUM_POINTS - 1

\* the edges every reading of the claim allows
ListedEdge ==
    \/ /\ phase' = phase
       /\ phase = "capture" => ActiveIndex' \in {ActiveIndex, ActiveIndex + 1}
       /\ phase = "manual_edit" => manual_edit_index' = manual_edit_index
    \/ phase = "init" /\ phase' = "capture" /\ ActiveIndex' = 0
    \/ phase = "capture" /\ phase' = "replay" /\ ActiveIndex = LastTarget
    \/ phase = "replay" /\ phase' = "capture" /\ redo_index' \in Targets
          /\ ActiveIndex' = redo_index'
    \/ phase = "replay" /\ phase' = "manual_edit" /\ manual_edit_index' \in Targets
    \/ phase = "manual_edit" /\ phase' = "replay"

\* C16 as stated: the phase changes along the listed edges only, the capture
\* phase being left for replay from the last target only.
C16_PhaseEdgesAsListed == [][ListedEdge]_vars

\* C16 as amended: the listed edges, and the edge from the capture of a
\* redone target, whichever it is, to replay.
C16_PhaseEdges ==
    [][ \/ ListedEdge
        \/ phase = "capture" /\ phase' = "replay" /\ redo_index \in Targets
              /\ redo_index' = NoIndex ]_vars

\* back in replay after an edit and then a redo: every edge was taken
C16_Witness ==
    /\ phase = "replay" /\ redo_index = NoIndex /\ manual_edit_index = NoIndex
    /\ edit_keys > 0 /\ edit_entry = None
    /\ \A i \in Targets : captured_points[i] # None

\* a step that handles K_SPACE in the capture phase and pulls enough
\* valid readings
CaptureSuccess == CaptureStep /\ ~TooFewValid(pulled')

\* the point stored for target i by the step is fresh, and no other point
\* is touched
StoredFresh(i) ==
    /\ captured_points'[i] # None
    /\ captured_points'[i].screen = calibration_points[i]
    /\ captured_points'[i].adjusted = None
    /\ \A j \in Targets \ {i} : captured_points'[j] = captured_points[j]

\* C17: in the initial pass the targets are captured in order 0..N-1; a
\* successful capture stores the point of the current target with a null
\* adjusted value and advances to the next target; the session goes to
\* replay, with a fit, when the last target is captured and not before.
C17_InitialPassInOrder ==
    /\ []((phase = "capture" /\ redo_index = NoIndex)
            => /\ current_index \in Targets
               /\ \A i \in Targets : captured_points[i] # None <=> i < current_index
               /\ homography = None)
    /\ [][ (CaptureSuccess /\ redo_index = NoIndex)
            => /\ StoredFresh(current_index)
               /\ current_index' = current_index + 1
               /\ redo_index' = NoIndex
               /\ IF current_index = NUM_POINTS - 1
                  THEN phase' = "replay" /\ FitOverPopulated'
                  ELSE phase' = "capture" /\ homography' = None ]_vars

\* the initial pass just ended: five fresh points, the fit over them, and
\* no edit made
C17_Witness ==
    /\ phase = "replay" /\ current_index = NUM_POINTS /\ edit_keys = 0
    /\ \A i \in Targets : captured_points[i] # None /\ captured_points[i].adjusted = None
    /\ FitOverPopulated /\ Len(homography.src) = NUM_POINTS

\* C18: a successful capture during the redo of target i stores a fresh
\* point for i, clears the redo index, refits over all the populated
\* points and returns to replay; current_index and the other points stay.
C18_RedoCaptureRefits ==
    [][ (CaptureSuccess /\ redo_index # NoIndex)
        => /\ StoredFresh(redo_index)
           /\ redo_index' = NoIndex
           /\ phase' = "replay"
           /\ current_index' = current_index
           /\ FitOverPopulated'
           /\ Len(homography'.src) = NUM_POINTS ]_vars

\* target 1 was edited and confirmed, then target 0 redone and captured:
\* the fit is over the five points, target 1's adjusted value kept
C18_Witness ==
    /\ phase = "replay" /\ edit_keys > 0 /\ edit_entry = None
    /\ captured_points[0] # None /\ captured_points[0].adjusted = None
    /\ captured_points[1] # None /\ captured_points[1].adjusted # None
    /\ FitOverPopulated /\ homography.dst[2] = captured_points[1].adjusted

\* the destination the fit is to use for a point
Destination(p) == IF p.adjusted # None THEN p.adjusted ELSE p.screen

\* C19: confirming a manual edit keeps the nudged value as the point's
\* adjusted value, replaces the mapping by the fit over all the populated
\* points, each with its adjusted value, when it has one, as destination
\* in place of its screen target, clears the edit index and returns to
\* replay.
C19_ConfirmCommitsAndRefits ==
    [][ (phase = "manual_edit" /\ KeyReturn)
        => /\ captured_points' = captured_points
           /\ captured_points'[manual_edit_index].adjusted # None
           /\ manual_edit_index' = NoIndex
           /\ phase' = "replay"
           /\ homography' # None
           /\ Len(homography'.src) = Cardinality(PopulatedTargets)
           /\ Len(homography'.dst) = Cardinality(PopulatedTargets)
           /\ \A i \in PopulatedTargets :
                 /\ homography'.src[Rank(i)] = captured_points[i].gaze
                 /\ homography'.dst[Rank(i)] = Destination(captured_points[i]) ]_vars

\* an edit of one large nudge up was confirmed: the fit sends the point to
\* its adjusted value, 20 above the mapped point
C19_Witness ==
    /\ phase = "replay" /\ edit_entry # None
    /\ nudges = [NoNudges EXCEPT ![<<"up", TRUE>>] = 1]
    /\ captured_points[edit_entry.idx].adjusted = PtAdd(edit_entry.mapped, Pt(0, -20))
    /\ homography.dst[edit_entry.idx + 1] = captured_points[edit_entry.idx].adjusted

\* C20: the phase is manual_edit exactly when the edit index is set; the
\* edited point is then populated and has an adjusted value; the phase is
\* entered from replay only, for a target whose point has data.
C20_ManualEditWellFormed ==
    /\ [](/\ phase = "manual_edit" <=> manual_edit_index # NoIndex
          /\ phase = "manual_edit" =>
                /\ manual_edit_index \in Targets
                /\ captured_points[manual_edit_index] # None
                /\ captured_points[manual_edit_index].adjusted # None)
    /\ [][ (phase # "manual_edit" /\ phase' = "manual_edit")
            => /\ phase = "replay"
               /\ manual_edit_index' \in Targets
               /\ captured_points[manual_edit_index'] # None ]_vars

\* the edit of target 3, which had no adjusted value, was just entered
C20_Witness ==
    /\ phase = "manual_edit" /\ pc = "loop" /\ running
    /\ manual_edit_index = 3 /\ nudges = NoNudges
    /\ edit_entry # None /\ edit_entry.committed = None
    /\ captured_points[3].adjusted = edit_entry.mapped

\* C22: in replay and in manual_edit every target has a point; in capture
\* the target of the next attempt, the redo index when it is set and the
\* initial-pass index otherwise, is one of the N targets; the redo index
\* is set in the capture phase only.
C22_SessionIndicesInRange ==
    /\ phase \in {"replay", "manual_edit"} =>
          \A i \in 0 .. NUM_POINTS - 1 : captured_points[i] # None
    /\ phase = "capture" =>
          /\ 0 <= ActiveIndex /\ ActiveIndex <= NUM_POINTS - 1
          /\ captured_points[ActiveIndex] = None
    /\ redo_index # NoIndex => phase = "capture"

\* the last target is being redone: the initial-pass index is past the
\* targets and the redo index is what the attempt is for
C22_Witness ==
    /\ phase = "capture" /\ pc = "loop" /\ running
    /\ current_index = NUM_POINTS /\ redo_index = NUM_POINTS - 1
    /\ captured_points[NUM_POINTS - 1] = None

(***************************************************************************)
(* C10: dwell on an asteroid.  In every pass of the main loop, for every   *)
(* asteroid on screen: when the cursor enters its square the dwell starts  *)
(* at that pass's time and nothing is emitted; while the cursor stays      *)
(* inside and the elapsed dwell is below FIXATION_TIME the asteroid stays  *)
(* with its start time and nothing is emitted; in the pass where the       *)
(* cursor is still inside and the elapsed dwell has reached FIXATION_TIME  *)
(* one "destroyed" result is emitted and the asteroid is removed.  No      *)
(* asteroid emits "destroyed" more than once, and one that did is gone.    *)
(***************************************************************************)
OnScreen(list, id) == \E k \in DOMAIN list : list[k].id = id
Emitted(id) == Cardinality({k \in DOMAIN results' : results'[k] = << id, "destroyed" >>})

DwellStep(a) ==
    IF ~Collides(a, cursor_pos')
    THEN /\ Emitted(a.id) = 0
         /\ \E k \in DOMAIN asteroids' :
               /\ asteroids'[k].id = a.id
               /\ ~asteroids'[k].fixating
    ELSE IF ~a.fixating
    THEN /\ Emitted(a.id) = 0
         /\ \E k \in DOMAIN asteroids' :
               /\ asteroids'[k].id = a.id
               /\ asteroids'[k].fixating
               /\ asteroids'[k].start_fix = [t |-> now']
    ELSE IF now' - a.start_fix.t < FIXATION_TIME
    THEN /\ Emitted(a.id) = 0
         /\ \E k \in DOMAIN asteroids' : asteroids'[k] = a
    ELSE /\ Emitted(a.id) = 1
         /\ ~OnScreen(asteroids', a.id)

C10_DwellCompletesOnce ==
    /\ [][ (game_pc = "loop" /\ game_pc' = "loop") =>
              /\ \A k \in DOMAIN asteroids : DwellStep(asteroids[k])
              /\ \A id \in DOMAIN destroyed :
                    destroyed'[id] = destroyed[id] + Emitted(id) ]_vars
    /\ [](\A id \in DOMAIN destroyed :
            /\ destroyed[id] <= 1
            /\ destroyed[id] = 1 => ~OnScreen(asteroids, id))

\* an asteroid was destroyed in the last pass, a second after the cursor
\* entered it
C10_Witness ==
    \E k \in DOMAIN results :
        /\ results[k][2] = "destroyed"
        /\ destroyed[results[k][1]] = 1
        /\ now >= FIXATION_TIME
        /\ Collides([x |-> 200, y |-> 200], cursor_pos)
           \/ Collides([x |-> 300, y |-> 200], cursor_pos)
           \/ Collides([x |-> 200, y |-> 400], cursor_pos)

(***************************************************************************)
(* C11: no partial dwell credit.  After every pass an asteroid whose       *)
(* square the cursor is outside of is idle (not fixating, no start time),  *)
(* and one the cursor is inside of is fixating with the time of the pass   *)
(* in which the cursor last came in as its start time; a "destroyed"       *)
(* result is emitted only for an asteroid the cursor has been inside in    *)
(* every pass since it last came in, FIXATION_TIME or more before.         *)
(***************************************************************************)
DwellFollowsCursor(a) ==
    IF inside_since[a.id] = None
    THEN ~a.fixating /\ a.start_fix = None
    ELSE a.fixating /\ a.start_fix = inside_since[a.id]

C11_NoPartialDwellCredit ==
    /\ [](\A k \in DOMAIN asteroids : DwellFollowsCursor(asteroids[k]))
    /\ [][ \A id \in DOMAIN destroyed :
              destroyed'[id] > destroyed[id] =>
                 /\ inside_since[id] # None
                 /\ now' - inside_since[id].t >= FIXATION_TIME
                 /\ \E k \in DOMAIN asteroids :
                       /\ asteroids[k].id = id
                       /\ Collides(asteroids[k], cursor_pos') ]_vars

\* the cursor went out of an asteroid a second after coming in: the
\* asteroid is still there, idle
C11_Witness ==
    \E k \in DOMAIN asteroids :
        /\ asteroids[k].id \in dropped
        /\ ~asteroids[k].fixating /\ asteroids[k].start_fix = None
        /\ ~Collides(asteroids[k], cursor_pos)
        /\ now >= FIXATION_TIME

(***************************************************************************)
(* Properties of the cursor of a frame.  The states are those after a pass *)
(* of the main loop: pointer and sample are what the pass had to work      *)
(* with, cursor_pos what it made of them.                                  *)
(***************************************************************************)
Live(s) == s.kind \in {"xy", "norm"} /\ s.worn

\* the scene-camera pixel a sample stands for, undistorted
RawUndistorted(s) ==
    IF s.kind = "xy" THEN undistort_point_opencv(s.x, s.y, camera)
    ELSE LET res == SceneResolution(camera)
         IN  undistort_point_opencv(
                 (s.x * (IF res # None THEN res.x ELSE WIDTH)) \div 1000,
                 (s.y * (IF res # None THEN res.y ELSE HEIGHT)) \div 1000, camera)

\* C12: with a device, a non-empty artifact in the format the calibration
\* session saves and a live sample, the cursor of the frame is the mapped
\* gaze, not the fallback pointer.
C12_SessionArtifactDrivesCursor ==
    (pl_device /\ calibration.format = "list" /\ calibration.items # <<>>
       /\ Live(sample))
        => cursor_pos # pointer

\* C13: when the sample is absent or the device is not worn, the cursor of
\* the frame is the fallback pointer.
C13_NonLiveSampleFallsBack ==
    (sample.kind = "none" \/ (sample.kind \in {"xy", "norm"} /\ ~sample.worn))
        => cursor_pos = pointer

\* C14: with a live sample and no calibration, the cursor of the frame is
\* the raw undistorted gaze point.
C14_UnmappedGazeIsCursor ==
    (pl_device /\ ~Truthy(calibration) /\ Live(sample))
        => cursor_pos = RawUndistorted(sample)

\* the loop was left because of a bad asteroid halving the score to 0
GameOver ==
    \E k \in DOMAIN results' : results'[k][2] = "destroyed" /\ score' <= 0

\* C15: the gaze source never ends the loop.  Without a device the cursor
\* is the pointer in every frame; when reading the sample raises, or
\* mapping it does, the cursor of that frame is the pointer; the loop is
\* left only on a quit event or when the game is over, never by an
\* exception, and as long as it is not left the next pass can be made.
C15_GazeNeverEndsLoop ==
    /\ [](/\ game_pc # "crashed"
          /\ ~pl_device => cursor_pos = pointer
          /\ sample.kind = "raise" => cursor_pos = pointer
          /\ (pl_device /\ Truthy(calibration) /\ calibration.format # "affine"
                /\ sample.kind \in {"xy", "norm"}) => cursor_pos = pointer
          /\ (game_pc = "loop" /\ game_running) => ENABLED GameFrame)
    /\ [][ (game_running /\ ~game_running') => (quit_event' \/ GameOver) ]_vars

\* a pass in which reading the sample raised: the cursor is the pointer
\* and the loop goes on
C15_Witness ==
    /\ pl_device /\ Truthy(calibration) /\ sample.kind = "raise"
    /\ cursor_pos = pointer /\ pointer = Pt(200, 400)
    /\ game_pc = "loop" /\ game_running

\* the cursor of the last pass was made from the sample: there is a device,
\* the calibration maps, and the sample has coordinates
FromGaze ==
    /\ pl_device /\ calibration.format = "affine"
    /\ sample.kind \in {"xy", "norm"}

\* C21: a cursor made from a gaze sample is inside the window,
\* 0 <= x < WIDTH and 0 <= y < HEIGHT, however far outside the mapped point
\* is, negative values included.
C21_GazeCursorInWindow ==
    FromGaze => /\ 0 <= cursor_pos.x /\ cursor_pos.x < WIDTH
                /\ 0 <= cursor_pos.y /\ cursor_pos.y < HEIGHT

\* a sample mapped to the right of and above the window: the cursor is the
\* top right pixel
C21_Witness ==
    /\ FromGaze /\ sample.x > WIDTH /\ sample.y < 0
    /\ cursor_pos = Pt(WIDTH - 1, 0) /\ cursor_pos # pointer

(***************************************************************************)
(* The asteroids on screen                                                 *)
(***************************************************************************)
\* the squares of two asteroids have a point in common
Overlap(a, b) ==
    /\ a.x - b.x < ASTEROID_SIZE /\ b.x - a.x < ASTEROID_SIZE
    /\ a.y - b.y < ASTEROID_SIZE /\ b.y - a.y < ASTEROID_SIZE

Apart(a, b) ==
    (a.x - b.x) * (a.x - b.x) + (a.y - b.y) * (a.y - b.y)
        >= MIN_DISTANCE * MIN_DISTANCE

Fixating == {k \in DOMAIN asteroids : asteroids[k].fixating}

\* C23: after every pass of the loop, each asteroid on screen is fixating
\* exactly when its start time is set, any two asteroids on screen are at
\* least MIN_DISTANCE apart and their squares do not overlap, at most one
\* asteroid is fixating, and at most MAX_ON_SCREEN asteroids are on screen
C23_FixationDetector ==
    /\ \A k \in DOMAIN asteroids :
          asteroids[k].fixating <=> asteroids[k].start_fix # None
    /\ \A j, k \in DOMAIN asteroids :
          j # k => Apart(asteroids[j], asteroids[k])
                   /\ ~Overlap(asteroids[j], asteroids[k])
    /\ Cardinality(Fixating) <= 1
    /\ Len(asteroids) <= MAX_ON_SCREEN

\* the screen is full after a spawn in the loop, one asteroid is fixating
\* and the others are not
C23_Witness ==
    /\ Len(asteroids) = MAX_ON_SCREEN
    /\ spawned > MAX_ON_SCREEN
    /\ Cardinality(Fixating) = 1
    /\ \A k \in Fixating : asteroids[k].start_fix # None
    /\ game_pc = "loop" /\ game_running

====
